---- MODULE Spec2Model ----
(***************************************************************************)
(* Model of pkg/bugzilla/bugzilla.go: Verifier.VerifyBugs and getPRs.      *)
(*                                                                         *)
(* A Go string is modelled as a sequence of text chunks (TLA+ strings);    *)
(* concatenation is \o and fmt.Sprintf is the concatenation of the chunks  *)
(* of its format with its arguments.  Strings that the code takes apart    *)
(* (the tag, a target release) are sequences of one-character chunks.      *)
(* The bugzilla and github clients are modelled by the state they serve    *)
(* (bzBugs, bzExternal, bzComments, ghLabels); every call may fail.        *)
(***************************************************************************)
EXTENDS Integers, Sequences, FiniteSets, TLC

\* ------------------------------------------------------------------ bounds

\* longest list of bug IDs handed to VerifyBugs
MaxInput == 2

\* most collaborator calls that fail in one behaviour
MaxFailures == 1

\* most VerifyBugs invocations in one behaviour of SpecRepeat
MaxInvocations == 2

\* most comments on a bug before the invocation of SpecComments
MaxComments == 2

\* ------------------------------------------------------------- Go strings

Digits == <<"0", "1", "2", "3", "4", "5", "6", "7", "8", "9">>

IsDigit(c) == \E k \in 1..10 : Digits[k] = c

DigitVal(c) == (CHOOSE k \in 1..10 : Digits[k] = c) - 1

\* fmt's %d of a non-negative int
RECURSIVE Itoa(_)
Itoa(n) == IF n < 10 THEN <<Digits[n + 1]>>
           ELSE Itoa(n \div 10) \o <<Digits[(n % 10) + 1]>>

\* the value of a non-empty sequence of digits
RECURSIVE Atoi(_)
Atoi(s) == IF Len(s) = 0 THEN 0
           ELSE 10 * Atoi(SubSeq(s, 1, Len(s) - 1)) + DigitVal(s[Len(s)])

\* strings.Split(s, sep) for a one-character sep: always at least one part
RECURSIVE Split(_, _)
Split(s, sep) ==
    IF \A k \in 1..Len(s) : s[k] # sep THEN <<s>>
    ELSE LET k == CHOOSE x \in 1..Len(s) :
                      s[x] = sep /\ \A y \in 1..(x - 1) : s[y] # sep
         IN  <<SubSeq(s, 1, k - 1)>> \o Split(SubSeq(s, k + 1, Len(s)), sep)

\* strings.HasSuffix
HasSuffix(s, suffix) ==
    /\ Len(suffix) <= Len(s)
    /\ SubSeq(s, Len(s) - Len(suffix) + 1, Len(s)) = suffix

\* strings.Count(s, sub) for a sub that cannot overlap itself
Count(s, sub) ==
    Cardinality({k \in 1..(Len(s) - Len(sub) + 1) :
                    SubSeq(s, k, k + Len(sub) - 1) = sub})

\* strings.Contains
Contains(s, sub) == Count(s, sub) > 0

\* ------------------------------------------------- constants of the code

ON_QA == "ON_QA"

VERIFIED == "VERIFIED"

\* any status other than ON_QA and VERIFIED
ASSIGNED == "ASSIGNED"

Statuses == {ON_QA, VERIFIED, ASSIGNED}

\* the --- that denotes an unset target release
UnsetTargetRelease == <<"-", "-", "-">>

QEApproved == "qe-approved"

GitHubURL == "https://github.com/"

JiraURL == "https://issues.redhat.com/"

\* the two account names of the robot
RobotCreators == {"openshift-bugzilla-robot", "openshift-bugzilla-robot@redhat.com"}

\* the account the verifier's bugzilla client is logged in as
RobotAccount == "openshift-bugzilla-robot@redhat.com"

\* the error value nil
Nil == <<>>

\* errors the clients return
ErrAccessDenied == <<"access denied">>

ErrServer == <<"server error">>

\* a slip of line 167: no failure is taken for an access denial
IsAccessDeniedNever(err) == FALSE

\* bugzilla.IsAccessDenied(err)
IsAccessDenied(err) == err = ErrAccessDenied

\* ---------------------------------------------------- the release parser

AllDigits(s) == Len(s) > 0 /\ \A k \in 1..Len(s) : IsDigit(s[k])

\* releasecontroller.SemverParseTolerant: one to three dot-separated numbers,
\* missing ones read as 0; anything else is an error
SemverParseTolerant(tag) ==
    LET parts == Split(tag, ".")
        ok == Len(parts) \in 1..3 /\ \A k \in 1..Len(parts) : AllDigits(parts[k])
        num(k) == IF k <= Len(parts) THEN Atoi(parts[k]) ELSE 0
    IN  IF ok THEN [err |-> Nil, Major |-> num(1), Minor |-> num(2), Patch |-> num(3)]
        ELSE [err |-> <<"Invalid character(s) found in major number">>,
              Major |-> 0, Minor |-> 0, Patch |-> 0]

\* releasecontroller.SemverToMajorMinor: "%d.%d" of Major and Minor
SemverToMajorMinor(v) == Itoa(v.Major) \o <<".">> \o Itoa(v.Minor)

\* ----------------------------------------------------- the modelled world

BugIDs == {1, 2}

Tag4143 == <<"4", ".", "1", "4", ".", "3">>

TagNotSemver == <<"n", "o", "t", "-", "a", "-", "s", "e", "m", "v", "e", "r">>

Tags == {Tag4143, TagNotSemver}

\* Bug.TargetRelease values: none, unset, this stream, another stream, malformed
TargetReleases ==
    { <<>>,
      <<UnsetTargetRelease>>,
      <<<<"4", ".", "1", "4", ".", "0">>>>,
      <<<<"4", ".", "1", "5", ".", "z">>, <<"4", ".", "1", "4", ".", "0">>>>,
      <<<<"4">>>> }

InStream == <<<<"4", ".", "1", "4", ".", "0">>>>

ExternalBug(url, org, repo, num) == [URL |-> url, Org |-> org, Repo |-> repo, Num |-> num]

Link5 == ExternalBug(GitHubURL, "org", "repo", 5)

Link6 == ExternalBug(GitHubURL, "org", "repo", 6)

LinkJira == ExternalBug(JiraURL, "", "", 77)

\* pr{org, repo, prNum}
PR(org, repo, num) == [org |-> org, repo |-> repo, prNum |-> num]

PRs == {PR("org", "repo", 5), PR("org", "repo", 6)}

LabelSets == {{"lgtm"}, {"lgtm", QEApproved}}

\* every list of at most MaxInput bug IDs, repeated IDs included
RECURSIVE SeqsUpTo(_, _)
SeqsUpTo(S, n) ==
    IF n = 0 THEN {<<>>}
    ELSE LET shorter == SeqsUpTo(S, n - 1)
         IN  shorter \cup {Append(s, x) : s \in shorter, x \in S}

Inputs == SeqsUpTo(BugIDs, MaxInput)

\* ------------------------------------------------ the code's pure parts

\* the errors the code builds with fmt.Errorf (a backquote of the Go text is
\* written ' here: a TLA+ string cannot hold one)
ErrTag(tag, err) ==
    <<"failed to parse tag '">> \o tag \o <<"' semver: ">> \o err

ErrGetBug(id, err) ==
    <<"Unable to get bugzilla number ">> \o Itoa(id) \o <<": ">> \o err

ErrTargetRelease(bg) ==
    <<"Bug ">> \o Itoa(bg.ID) \o <<": length of target release '">>
        \o bg.TargetRelease[1] \o <<"' after split by '.' is less than 2">>

ErrNotOnQA == <<"Bug is not in ON_QA status">>

ErrLabels(extPR, err) ==
    <<"Unable to get labels for github pull ", extPR.org, "/", extPR.repo, "#">>
        \o Itoa(extPR.prNum) \o <<": ">> \o err

ErrGetComments(id, err) ==
    <<"Failed to get comments on bug ">> \o Itoa(id) \o <<": ">> \o err

ErrCreateComment(id, err) ==
    <<"Failed to comment on bug ">> \o Itoa(id) \o <<": ">> \o err

ErrUpdateBug(id, err) ==
    <<"Failed to update status for bug ">> \o Itoa(id) \o <<": ">> \o err

ErrExternal(id, err) ==
    <<"Failed to get external bugs for bugzilla bug ">> \o Itoa(id) \o <<": ">> \o err

\* line 60: the bug has no target release
NoTargetRelease(bg) ==
    Len(bg.TargetRelease) = 0 \/ bg.TargetRelease[1] = UnsetTargetRelease

\* lines 65-66: the target release has fewer than two dot-separated parts
MalformedTargetRelease(bg) == Len(Split(bg.TargetRelease[1], ".")) < 2

\* line 70: "%s.%s" of the first two parts
BugRelease(bg) ==
    LET bugSplitVer == Split(bg.TargetRelease[1], ".")
    IN  bugSplitVer[1] \o <<".">> \o bugSplitVer[2]

\* a slip of line 71: only the major numbers are compared
OtherReleaseMajorOnly(bg, tagRel) ==
    Split(bg.TargetRelease[1], ".")[1] # Split(tagRel, ".")[1]

\* line 71: the bug is targeted at another release than the tag's
OtherRelease(bg, tagRel) == BugRelease(bg) # tagRel

\* a slip of line 82: the wrong status is skipped
AlreadyVerifiedClosed(bg) == bg.Status # ON_QA /\ bg.Status = "CLOSED"

\* lines 80-84: the bug has been moved to VERIFIED already
AlreadyVerified(bg) == bg.Status # ON_QA /\ bg.Status = VERIFIED

\* a slip of line 80: the status is not looked at
NotOnQAUnchecked(bg) == FALSE

\* line 80: the bug is not in ON_QA status
NotOnQA(bg) == bg.Status # ON_QA

\* a slip of line 48: the parse error is dropped
ParseFailedIgnored(tagSemVer) == FALSE

\* line 48: the tag did not parse
ParseFailed(tagSemVer) == tagSemVer.err # Nil

\* a slip of lines 96-103: a PR without any label counts as approved
HasLabelOrNone(labels) == labels = {} \/ \E label \in labels : label = QEApproved

\* lines 96-102: some label is named qe-approved
HasLabel(labels) == \E label \in labels : label = QEApproved

\* line 77
BaseMessage(tag) == <<"Bugfix included in accepted release ">> \o tag

\* line 111, for every unlabeled PR in order
RECURSIVE UnapprovedLines(_)
UnapprovedLines(prs) ==
    IF Len(prs) = 0 THEN <<>>
    ELSE <<"\n- PR ", Head(prs).org, "/", Head(prs).repo, "#">>
             \o Itoa(Head(prs).prNum) \o <<" not approved by QA contact">>
             \o UnapprovedLines(Tail(prs))

\* a slip of lines 113-115: the errors of the bug are left out of the message
ReasonLinesDropped(es) == <<>>

\* line 114, for every error of the bug in order
RECURSIVE ReasonLines(_)
ReasonLines(es) ==
    IF Len(es) = 0 THEN <<>>
    ELSE <<"\n- ">> \o Head(es) \o ReasonLines(Tail(es))

Preamble ==
    <<"\nBug will not be automatically moved to VERIFIED for the following reasons:">>

Closing == <<"\n\nThis bug must now be manually moved to VERIFIED">>

SuccessLine ==
    <<"\nAll linked GitHub PRs have been approved by a QA contact; updating bug status to VERIFIED">>

\* a slip of line 108: the errors of the bug are not looked at
SuccessIgnoringErrs(unlabeled, bErrs) == ~(Len(unlabeled) > 0)

\* lines 108, 121-123: the outcome of the bug
Success(unlabeled, bErrs) == ~(Len(unlabeled) > 0 \/ Len(bErrs) > 0)

\* lines 77, 108-126: the comment for the bug
ComposeMessage(tag, unlabeled, bErrs, bg) ==
    IF ~Success(unlabeled, bErrs)
    THEN BaseMessage(tag) \o Preamble \o UnapprovedLines(unlabeled)
             \o ReasonLines(bErrs) \o Closing
             \o (IF bg.QAContactDetail # <<>>
                 THEN <<" by ", bg.QAContactDetail[1]>> ELSE <<>>)
    ELSE BaseMessage(tag) \o SuccessLine

\* a slip of line 133: alreadyCommented starts as true
AlreadyCommentedAlways(comments, msg) == TRUE

\* a slip of line 135: the creator of the comment is not looked at
AlreadyCommentedAnyAuthor(comments, msg) ==
    \E k \in 1..Len(comments) : comments[k].Text = msg

\* a slip of line 135: only the short account name is taken for the robot
AlreadyCommentedShortName(comments, msg) ==
    \E k \in 1..Len(comments) :
        /\ comments[k].Text = msg
        /\ comments[k].Creator = "openshift-bugzilla-robot"

\* lines 133-139: an equal comment of the robot is already on the bug
AlreadyCommented(comments, msg) ==
    \E k \in 1..Len(comments) :
        /\ comments[k].Text = msg
        /\ comments[k].Creator \in RobotCreators

\* a slip of line 176: the host of the link is not looked at
RECURSIVE LinkedPRsAnyHost(_)
LinkedPRsAnyHost(extBugs) ==
    IF Len(extBugs) = 0 THEN <<>>
    ELSE <<PR(Head(extBugs).Org, Head(extBugs).Repo, Head(extBugs).Num)>>
             \o LinkedPRsAnyHost(Tail(extBugs))

\* lines 175-184: the PRs of the github links, in link order
RECURSIVE LinkedPRs(_)
LinkedPRs(extBugs) ==
    IF Len(extBugs) = 0 THEN <<>>
    ELSE (IF Head(extBugs).URL = GitHubURL
          THEN <<PR(Head(extBugs).Org, Head(extBugs).Repo, Head(extBugs).Num)>>
          ELSE <<>>) \o LinkedPRs(Tail(extBugs))

\* a slip of lines 174-189: the bug gets a map entry also when none of its
\* links is a github link
AddPRsAlways(m, bzID, extBugs) ==
    LET new == LinkedPRs(extBugs)
    IN  IF bzID \in DOMAIN m THEN [m EXCEPT ![bzID] = @ \o new]
        ELSE (bzID :> new) @@ m

\* lines 174-189: bzPRs after the links of bzID were read
AddPRs(m, bzID, extBugs) ==
    LET new == LinkedPRs(extBugs)
    IN  IF Len(new) = 0 THEN m
        ELSE IF bzID \in DOMAIN m THEN [m EXCEPT ![bzID] = @ \o new]
        ELSE (bzID :> new) @@ m

\* ------------------------------------------------------------ the state

VARIABLES
    bzBugs,        \* bugzilla: bug ID -> Bug (ID, Status, TargetRelease, QAContactDetail)
    bzExternal,    \* bugzilla: bug ID -> the external bug links of the bug
    bzComments,    \* bugzilla: bug ID -> the comments on the bug, oldest first
    ghLabels,      \* github: PR -> the names of its labels
    pc,            \* where VerifyBugs stands: idle, getPRs, range, GetIssueLabels,
                   \* GetComments, CreateComment, UpdateBug, done
    bugs,          \* VerifyBugs' argument bugs
    tagName,       \* VerifyBugs' argument tagName
    tagRelease,    \* line 51
    idx,           \* getPRs: position in input of the ID read next
    bzPRs,         \* getPRs' map, then VerifyBugs' bzPRs
    errs,          \* the error list VerifyBugs returns
    todo,          \* keys of bzPRs the range loop has not visited yet
    bugID,         \* the loop's bugID (0 outside an iteration)
    bug,           \* the loop's bug
    extPRs,        \* the loop's extPRs
    prIdx,         \* position in extPRs of the PR whose labels are read next
    unlabeledPRs,  \* line 78
    bugErrs,       \* line 79
    message,       \* line 77
    success,       \* line 76
    calls,         \* history: the client calls of this invocation, in order
    outcome,       \* history: bug ID -> none, success or failure (lines 108-123)
    atEntry,       \* history: bzBugs when the invocation began
    failures,      \* history: client calls that failed so far
    invocations    \* history: invocations begun so far

world == <<bzBugs, bzExternal, bzComments, ghLabels>>

args == <<bugs, tagName, tagRelease>>

locals == <<bugID, bug, extPRs, prIdx, unlabeledPRs, bugErrs, message, success>>

vars == <<bzBugs, bzExternal, bzComments, ghLabels, pc, bugs, tagName, tagRelease,
          idx, bzPRs, errs, todo, bugID, bug, extPRs, prIdx, unlabeledPRs, bugErrs,
          message, success, calls, outcome, atEntry, failures, invocations>>

Bug(id, status, targetRelease, qaContact) ==
    [ID |-> id, Status |-> status, TargetRelease |-> targetRelease,
     QAContactDetail |-> qaContact]

\* the zero value of the loop's bug
NoBug == Bug(0, "", <<>>, <<>>)

NoPR == PR("", "", 0)

\* a client call: the method, the bug it is made for, the PR (GetIssueLabels),
\* the text sent (the comment, the new status) and the error returned
Call(op, id, extPR, text, err) ==
    [op |-> op, id |-> id, pr |-> extPR, text |-> text, err |-> err]

\* the program before the first invocation
InitProgram ==
    /\ pc = "idle"
    /\ bugs = <<>>
    /\ tagName = <<>>
    /\ tagRelease = <<>>
    /\ idx = 0
    /\ bzPRs = <<>>
    /\ errs = <<>>
    /\ todo = {}
    /\ bugID = 0
    /\ bug = NoBug
    /\ extPRs = <<>>
    /\ prIdx = 0
    /\ unlabeledPRs = <<>>
    /\ bugErrs = <<>>
    /\ message = <<>>
    /\ success = FALSE
    /\ calls = <<>>
    /\ outcome = [b \in BugIDs |-> "none"]
    /\ atEntry = bzBugs
    /\ failures = 0
    /\ invocations = 0

\* Bug 1 links two PRs and a tracker that is not github, and has no QA contact;
\* bug 2 links one of the same PRs, or none, and has a QA contact.
Init ==
    /\ \E s1 \in Statuses, s2 \in Statuses, tr \in TargetReleases :
           bzBugs = (1 :> Bug(1, s1, tr, <<>>)) @@ (2 :> Bug(2, s2, InStream, <<"Jane">>))
    /\ \E l2 \in {<<LinkJira>>, <<Link5>>} :
           bzExternal = (1 :> <<Link5, LinkJira, Link6>>) @@ (2 :> l2)
    /\ bzComments = [b \in BugIDs |-> <<>>]
    /\ ghLabels \in [PRs -> LabelSets]
    /\ InitProgram

\* ---------------------------------------------------------- the actions

\* a client call returns err: nil, or a failure while failures are left
Returns(err) ==
    /\ err # Nil => failures < MaxFailures
    /\ failures' = IF err = Nil THEN failures ELSE failures + 1

Called(op, id, extPR, text, err) ==
    calls' = Append(calls, Call(op, id, extPR, text, err))

\* a slip of the loop: the key just visited stays to be visited
ContinueKeepsKey(b) ==
    /\ todo' = todo
    /\ pc' = "range"
    /\ bugID' = 0
    /\ bug' = NoBug
    /\ extPRs' = <<>>
    /\ prIdx' = 0
    /\ unlabeledPRs' = <<>>
    /\ bugErrs' = <<>>
    /\ message' = <<>>
    /\ success' = FALSE

\* a slip of the loop: `break` where the code has `continue`
ContinueBreaks(b) ==
    /\ todo' = {}
    /\ pc' = "done"
    /\ bugID' = 0
    /\ bug' = NoBug
    /\ extPRs' = <<>>
    /\ prIdx' = 0
    /\ unlabeledPRs' = <<>>
    /\ bugErrs' = <<>>
    /\ message' = <<>>
    /\ success' = FALSE

\* `continue`, or the end of the loop body: on to the next key of bzPRs, or
\* line 155 when none is left
Continue(b) ==
    /\ todo' = todo \ {b}
    /\ pc' = IF todo \ {b} = {} THEN "done" ELSE "range"
    /\ bugID' = 0
    /\ bug' = NoBug
    /\ extPRs' = <<>>
    /\ prIdx' = 0
    /\ unlabeledPRs' = <<>>
    /\ bugErrs' = <<>>
    /\ message' = <<>>
    /\ success' = FALSE

\* lines 108-127 for bug bg with the unlabeled PRs and errors found: message is
\* never "" (line 77), so the comments are read next
Compose(bg, prs, unl, bErrs) ==
    /\ bugID' = bg.ID
    /\ bug' = bg
    /\ extPRs' = prs
    /\ prIdx' = 0
    /\ unlabeledPRs' = unl
    /\ bugErrs' = bErrs
    /\ success' = Success(unl, bErrs)
    /\ message' = ComposeMessage(tagName, unl, bErrs, bg)
    /\ outcome' = [outcome EXCEPT
                      ![bg.ID] = IF Success(unl, bErrs) THEN "success" ELSE "failure"]
    /\ pc' = "GetComments"
    /\ todo' = todo

\* lines 46-52: VerifyBugs(bugList, tag) is called and parses the tag
VerifyBugs(bugList, tag) ==
    /\ pc = "idle"
    /\ invocations' = invocations + 1
    /\ bugs' = bugList
    /\ tagName' = tag
    /\ calls' = <<>>
    /\ outcome' = [b \in BugIDs |-> "none"]
    /\ atEntry' = bzBugs
    /\ bzPRs' = <<>>
    /\ todo' = {}
    /\ idx' = 1
    /\ LET tagSemVer == SemverParseTolerant(tag)
       IN  IF ParseFailed(tagSemVer)
           THEN /\ errs' = <<ErrTag(tag, tagSemVer.err)>>
                /\ tagRelease' = <<>>
                /\ pc' = "done"
           ELSE /\ errs' = <<>>
                /\ tagRelease' = SemverToMajorMinor(tagSemVer)
                /\ pc' = IF Len(bugList) = 0 THEN "done" ELSE "getPRs"
    /\ UNCHANGED <<world, locals, failures>>

\* lines 163-189: getPRs reads the external links of input[idx]
GetExternalBugPRsOnBug ==
    /\ pc = "getPRs"
    /\ \E err \in {Nil, ErrAccessDenied, ErrServer} :
        LET bzID == bugs[idx]
            newPRs == IF err = Nil THEN AddPRs(bzPRs, bzID, bzExternal[bzID]) ELSE bzPRs
        IN  /\ Returns(err)
            /\ Called("GetExternalBugPRsOnBug", bzID, NoPR, <<>>, err)
            /\ errs' = IF err # Nil /\ ~IsAccessDenied(err)
                       THEN Append(errs, ErrExternal(bzID, err)) ELSE errs
            /\ bzPRs' = newPRs
            /\ idx' = idx + 1
            /\ IF idx < Len(bugs)
               THEN pc' = "getPRs" /\ todo' = todo
               ELSE /\ todo' = DOMAIN newPRs
                    /\ pc' = IF DOMAIN newPRs = {} THEN "done" ELSE "range"
    /\ UNCHANGED <<world, args, locals, outcome, atEntry, invocations>>

\* lines 53-88: the loop takes a key of bzPRs, reads the bug and passes the
\* target-release and status gates
GetBug ==
    /\ pc = "range"
    /\ \E b \in todo, err \in {Nil, ErrServer} :
        LET bg == bzBugs[b]
        IN  /\ Returns(err)
            /\ Called("GetBug", b, NoPR, <<>>, err)
            /\ IF err # Nil
               THEN /\ errs' = Append(errs, ErrGetBug(b, err))
                    /\ Continue(b)
                    /\ outcome' = outcome
               ELSE IF NoTargetRelease(bg)
               THEN errs' = errs /\ Continue(b) /\ outcome' = outcome
               ELSE IF MalformedTargetRelease(bg)
               THEN /\ errs' = Append(errs, ErrTargetRelease(bg))
                    /\ Continue(b)
                    /\ outcome' = outcome
               ELSE IF OtherRelease(bg, tagRelease)
               THEN errs' = errs /\ Continue(b) /\ outcome' = outcome
               ELSE IF AlreadyVerified(bg)
               THEN errs' = errs /\ Continue(b) /\ outcome' = outcome
               ELSE IF NotOnQA(bg)
               THEN errs' = errs /\ Compose(bg, bzPRs[b], <<>>, <<ErrNotOnQA>>)
               ELSE IF Len(bzPRs[b]) = 0
               THEN errs' = errs /\ Compose(bg, bzPRs[b], <<>>, <<>>)
               ELSE /\ errs' = errs
                    /\ bugID' = b
                    /\ bug' = bg
                    /\ extPRs' = bzPRs[b]
                    /\ prIdx' = 1
                    /\ pc' = "GetIssueLabels"
                    /\ UNCHANGED <<todo, unlabeledPRs, bugErrs, message, success, outcome>>
    /\ UNCHANGED <<world, args, idx, bzPRs, atEntry, invocations>>

\* lines 89-106: the labels of extPRs[prIdx] are read
GetIssueLabels ==
    /\ pc = "GetIssueLabels"
    /\ \E err \in {Nil, ErrServer} :
        LET extPR == extPRs[prIdx]
            labels == IF err = Nil THEN ghLabels[extPR] ELSE {}
            newErrs == IF err # Nil THEN <<ErrLabels(extPR, err)>> ELSE <<>>
            unl == IF ~HasLabel(labels) THEN Append(unlabeledPRs, extPR) ELSE unlabeledPRs
        IN  /\ Returns(err)
            /\ Called("GetIssueLabels", bugID, extPR, <<>>, err)
            /\ errs' = errs \o newErrs
            /\ IF prIdx < Len(extPRs)
               THEN /\ prIdx' = prIdx + 1
                    /\ unlabeledPRs' = unl
                    /\ bugErrs' = bugErrs \o newErrs
                    /\ UNCHANGED <<pc, todo, bugID, bug, extPRs, message, success, outcome>>
               ELSE Compose(bug, extPRs, unl, bugErrs \o newErrs)
    /\ UNCHANGED <<world, args, idx, bzPRs, atEntry, invocations>>

\* a slip of lines 141-146: a failed post ends the iteration, as a failed
\* comment fetch does
AfterCommentUnlessFailed ==
    IF failures' # failures THEN Continue(bugID)
    ELSE IF success THEN pc' = "UpdateBug" /\ UNCHANGED <<todo, locals>>
    ELSE Continue(bugID)

\* what follows the comment: the update when the outcome is success (line 146)
AfterComment ==
    IF success
    THEN pc' = "UpdateBug" /\ UNCHANGED <<todo, locals>>
    ELSE Continue(bugID)

\* lines 128-140: the comments of the bug are read and searched
GetComments ==
    /\ pc = "GetComments"
    /\ \E err \in {Nil, ErrServer} :
        /\ Returns(err)
        /\ Called("GetComments", bugID, NoPR, <<>>, err)
        /\ IF err # Nil
           THEN /\ errs' = Append(errs, ErrGetComments(bug.ID, err))
                /\ Continue(bugID)
           ELSE /\ errs' = errs
                /\ IF AlreadyCommented(bzComments[bugID], message)
                   THEN AfterComment
                   ELSE pc' = "CreateComment" /\ UNCHANGED <<todo, locals>>
    /\ UNCHANGED <<world, args, idx, bzPRs, outcome, atEntry, invocations>>

\* lines 140-144: the comment is posted, as a private comment of the robot
CreateComment ==
    /\ pc = "CreateComment"
    /\ \E err \in {Nil, ErrServer} :
        /\ Returns(err)
        /\ Called("CreateComment", bugID, NoPR, message, err)
        /\ IF err # Nil
           THEN /\ errs' = Append(errs, ErrCreateComment(bug.ID, err))
                /\ bzComments' = bzComments
           ELSE /\ errs' = errs
                /\ bzComments' =
                       [bzComments EXCEPT
                           ![bugID] = Append(@, [Text |-> message,
                                                 Creator |-> RobotAccount,
                                                 IsPrivate |-> TRUE])]
        /\ AfterComment
    /\ UNCHANGED <<bzBugs, bzExternal, ghLabels, args, idx, bzPRs, outcome,
                   atEntry, invocations>>

\* lines 146-150: the status of the bug is set to VERIFIED
UpdateBug ==
    /\ pc = "UpdateBug"
    /\ \E err \in {Nil, ErrServer} :
        /\ Returns(err)
        /\ Called("UpdateBug", bug.ID, NoPR, <<VERIFIED>>, err)
        /\ IF err # Nil
           THEN /\ errs' = Append(errs, ErrUpdateBug(bug.ID, err))
                /\ bzBugs' = bzBugs
           ELSE /\ errs' = errs
                /\ bzBugs' = [bzBugs EXCEPT ![bug.ID].Status = VERIFIED]
        /\ Continue(bugID)
    /\ UNCHANGED <<bzExternal, bzComments, ghLabels, args, idx, bzPRs, outcome,
                   atEntry, invocations>>

\* line 155 was reached and the caller took the errors: the verifier is idle
\* again, nothing of the invocation is left
BackToIdle ==
    /\ pc = "done"
    /\ invocations < MaxInvocations
    /\ pc' = "idle"
    /\ bugs' = <<>>
    /\ tagName' = <<>>
    /\ tagRelease' = <<>>
    /\ idx' = 0
    /\ bzPRs' = <<>>
    /\ errs' = <<>>
    /\ calls' = <<>>
    /\ outcome' = [b \in BugIDs |-> "none"]
    /\ atEntry' = bzBugs'
    /\ UNCHANGED <<todo, locals, failures, invocations>>

\* the next invocation finds bugzilla and github as this one left them
Return == UNCHANGED world /\ BackToIdle

\* between two invocations the QA contact approves a PR on github
Approve ==
    /\ \E extPR \in PRs :
        /\ ~HasLabel(ghLabels[extPR])
        /\ ghLabels' = [ghLabels EXCEPT ![extPR] = @ \cup {QEApproved}]
    /\ UNCHANGED <<bzBugs, bzExternal, bzComments>>
    /\ BackToIdle

\* between two invocations somebody moves a bug back to ON_QA in bugzilla
Reopen ==
    /\ \E b \in BugIDs :
        /\ bzBugs[b].Status # ON_QA
        /\ bzBugs' = [bzBugs EXCEPT ![b].Status = ON_QA]
    /\ UNCHANGED <<bzExternal, bzComments, ghLabels>>
    /\ BackToIdle

Next ==
    \/ \E bugList \in Inputs, tag \in Tags : invocations = 0 /\ VerifyBugs(bugList, tag)
    \/ GetExternalBugPRsOnBug
    \/ GetBug
    \/ GetIssueLabels
    \/ GetComments
    \/ CreateComment
    \/ UpdateBug

\* one invocation of VerifyBugs, on any of the modelled worlds
Spec == Init /\ [][Next]_vars

\* the worlds of SpecRepeat: both bugs target the tag's release stream
InitRepeat ==
    /\ \E s1 \in {ON_QA, ASSIGNED} :
           bzBugs = (1 :> Bug(1, s1, InStream, <<>>))
                        @@ (2 :> Bug(2, ON_QA, InStream, <<"Jane">>))
    /\ bzExternal = (1 :> <<Link5, LinkJira, Link6>>) @@ (2 :> <<Link5>>)
    /\ bzComments = [b \in BugIDs |-> <<>>]
    /\ ghLabels \in [PRs -> LabelSets]
    /\ InitProgram

\* the batches of SpecRepeat: one bug, both bugs, one bug given twice
RepeatInputs == {<<1>>, <<1, 2>>, <<2, 2>>}

NextRepeat ==
    \/ \E bugList \in RepeatInputs, tag \in Tags : VerifyBugs(bugList, tag)
    \/ GetExternalBugPRsOnBug
    \/ GetBug
    \/ GetIssueLabels
    \/ GetComments
    \/ CreateComment
    \/ UpdateBug
    \/ Return
    \/ Approve
    \/ Reopen

\* up to MaxInvocations invocations of VerifyBugs, one after the other, the
\* labels and the statuses changing in between
SpecRepeat == InitRepeat /\ [][NextRepeat]_vars

\* the worlds of SpecLive: bug 1 is ON_QA, both bugs target the tag's release
\* stream and every PR carries qe-approved
InitLive ==
    /\ \E s2 \in Statuses :
           bzBugs = (1 :> Bug(1, ON_QA, InStream, <<>>))
                        @@ (2 :> Bug(2, s2, InStream, <<"Jane">>))
    /\ bzExternal = (1 :> <<Link5, LinkJira, Link6>>) @@ (2 :> <<Link5>>)
    /\ bzComments = [b \in BugIDs |-> <<>>]
    /\ ghLabels = [extPR \in PRs |-> {"lgtm", QEApproved}]
    /\ InitProgram

\* the batches of SpecLive: bug 1 is in every one of them
LiveInputs == {<<1>>, <<1, 2>>, <<2, 1>>}

\* line 155 was reached and the caller, which syncs the release again, is
\* about to call VerifyBugs once more; how many invocations there were is not
\* kept
Again ==
    /\ pc = "done"
    /\ UNCHANGED world
    /\ pc' = "idle"
    /\ bugs' = <<>>
    /\ tagName' = <<>>
    /\ tagRelease' = <<>>
    /\ idx' = 0
    /\ bzPRs' = <<>>
    /\ errs' = <<>>
    /\ calls' = <<>>
    /\ outcome' = [b \in BugIDs |-> "none"]
    /\ atEntry' = bzBugs
    /\ invocations' = 0
    /\ UNCHANGED <<todo, locals, failures>>

NextLive ==
    \/ \E bugList \in LiveInputs : VerifyBugs(bugList, Tag4143)
    \/ GetExternalBugPRsOnBug
    \/ GetBug
    \/ GetIssueLabels
    \/ GetComments
    \/ CreateComment
    \/ UpdateBug
    \/ Again

\* VerifyBugs is invoked again and again with the same tag, every invocation
\* runs to its end, and at most MaxFailures client calls fail in all: from some
\* point on every call succeeds
SpecLive == InitLive /\ [][NextLive]_vars /\ WF_vars(NextLive)

\* bugzilla.Comment
Comment(text, creator, private) ==
    [Text |-> text, Creator |-> creator, IsPrivate |-> private]

\* the accounts that commented before: the robot under its two names, a person
Commenters == RobotCreators \cup {"jane@redhat.com"}

\* the texts commented before: the messages of tag 4.14.3 for a bug that is
\* moved to VERIFIED and for a bug that is not ON_QA
ExistingTexts(bg) ==
    { BaseMessage(Tag4143) \o SuccessLine,
      BaseMessage(Tag4143) \o Preamble \o <<"\n- ">> \o ErrNotOnQA \o Closing
          \o <<" by ", bg.QAContactDetail[1]>> }

\* the worlds of SpecComments: bug 2 has up to MaxComments comments already
InitComments ==
    /\ \E s2 \in {ON_QA, ASSIGNED} :
           bzBugs = (1 :> Bug(1, ON_QA, InStream, <<>>))
                        @@ (2 :> Bug(2, s2, InStream, <<"Jane">>))
    /\ bzExternal = (1 :> <<Link5, LinkJira, Link6>>) @@ (2 :> <<Link5>>)
    /\ \E comments \in SeqsUpTo({Comment(t, c, FALSE) :
                                     t \in ExistingTexts(Bug(2, ON_QA, InStream, <<"Jane">>)),
                                     c \in Commenters}, MaxComments) :
           bzComments = (1 :> <<>>) @@ (2 :> comments)
    /\ ghLabels \in [PRs -> LabelSets]
    /\ InitProgram

\* the batches of SpecComments: the commented bug alone, and after the other
CommentInputs == {<<2>>, <<1, 2>>}

NextComments ==
    \/ \E bugList \in CommentInputs, tag \in Tags :
           invocations = 0 /\ VerifyBugs(bugList, tag)
    \/ GetExternalBugPRsOnBug
    \/ GetBug
    \/ GetIssueLabels
    \/ GetComments
    \/ CreateComment
    \/ UpdateBug

\* one invocation of VerifyBugs on a bug that people and the robot commented
SpecComments == InitComments /\ [][NextComments]_vars

\* ------------------------------------------------- what the claims speak of

\* the positions in calls of the calls of method op made for bug b
CallsOf(op, b) == {k \in 1..Len(calls) : calls[k].op = op /\ calls[k].id = b}

\* the defect-tracker write calls made for bug b
WritesOf(b) == CallsOf("CreateComment", b) \cup CallsOf("UpdateBug", b)

\* the calls made for bug b that failed
FailedOf(b) == {k \in 1..Len(calls) : calls[k].id = b /\ calls[k].err # Nil}

\* the first chunks of the errors that name a bug
BugErrorHeads ==
    {"Unable to get bugzilla number ", "Bug ", "Failed to get comments on bug ",
     "Failed to comment on bug ", "Failed to update status for bug ",
     "Failed to get external bugs for bugzilla bug "}

\* the text of error e names bug b
NamesBug(e, b) ==
    LET n == Itoa(b)
    IN  /\ Len(e) > Len(n)
        /\ e[1] \in BugErrorHeads
        /\ SubSeq(e, 2, 1 + Len(n)) = n
        /\ Len(e) > 1 + Len(n) => ~IsDigit(e[2 + Len(n)])

\* the positions in errs of the errors that name bug b
ErrorsOf(b) == {k \in 1..Len(errs) : NamesBug(errs[k], b)}

\* the invocation is over
Returned == pc = "done"

\* the tag of the invocation parses
TagValid == SemverParseTolerant(tagName).err = Nil

\* bug b was read at lines 54-58 without an error
Fetched(b) == \E k \in CallsOf("GetBug", b) : calls[k].err = Nil

\* bug b, as it was when the invocation began, targets the tag's release stream
InTagStream(b) ==
    /\ ~NoTargetRelease(atEntry[b])
    /\ ~MalformedTargetRelease(atEntry[b])
    /\ BugRelease(atEntry[b]) = tagRelease

\* C2 as claimed: for a bug that is VERIFIED when VerifyBugs is entered, whatever
\* its target release and links, no comment is posted, no status update is
\* issued and no error that concerns it is in the returned list (stated here
\* for the bugs all of whose calls succeed, where it fails already).
C2_VerifiedUntouchedNoError ==
    \A b \in BugIDs :
        (atEntry[b].Status = VERIFIED /\ FailedOf(b) = {}) =>
            WritesOf(b) = {} /\ ErrorsOf(b) = {}

\* C2 amended: for a bug that is VERIFIED at entry no comment is posted and no
\* status update is issued; an error that concerns it is recorded only for a
\* failed link fetch, a failed bug fetch or a malformed target release.
C2_VerifiedUntouched ==
    \A b \in BugIDs :
        atEntry[b].Status = VERIFIED =>
            /\ WritesOf(b) = {}
            /\ CallsOf("GetComments", b) = {}
            /\ \A k \in ErrorsOf(b) :
                   \/ \E c \in FailedOf(b) :
                          /\ calls[c].op = "GetExternalBugPRsOnBug"
                          /\ errs[k] = ErrExternal(b, calls[c].err)
                   \/ \E c \in FailedOf(b) :
                          /\ calls[c].op = "GetBug"
                          /\ errs[k] = ErrGetBug(b, calls[c].err)
                   \/ /\ Fetched(b)
                      /\ ~NoTargetRelease(atEntry[b])
                      /\ Len(Split(atEntry[b].TargetRelease[1], ".")) < 2

\* C2 witness: a VERIFIED bug of the tag's stream was read and skipped
C2_Witness ==
    /\ Returned
    /\ \E b \in BugIDs :
        /\ atEntry[b].Status = VERIFIED
        /\ Fetched(b)
        /\ InTagStream(b)
        /\ \E o \in BugIDs : o # b /\ WritesOf(o) # {}

\* C4: every status update sets VERIFIED and is issued only for a bug that was
\* read in status ON_QA; bugzilla's statuses change in no other way.
C4_OnlyOnQAToVerified ==
    /\ \A k \in 1..Len(calls) :
           calls[k].op = "UpdateBug" =>
               /\ calls[k].text = <<VERIFIED>>
               /\ atEntry[calls[k].id].Status = ON_QA
               /\ Fetched(calls[k].id)
    /\ \A b \in BugIDs :
           bzBugs[b].Status # atEntry[b].Status =>
               atEntry[b].Status = ON_QA /\ bzBugs[b].Status = VERIFIED

\* C4 witness: an update was issued and bugzilla applied it
C4_Witness ==
    \E b \in BugIDs :
        /\ CallsOf("UpdateBug", b) # {}
        /\ atEntry[b].Status = ON_QA
        /\ bzBugs[b].Status = VERIFIED

\* C5: a bug with no target release, with the unset target release, or with
\* a target release of another major.minor than the tag's gets no comment and
\* no status update, whatever its status and the labels of its PRs.
C5_ReleaseGate ==
    \A b \in BugIDs :
        \/ WritesOf(b) = {}
        \/ ~(\/ Len(atEntry[b].TargetRelease) = 0
             \/ atEntry[b].TargetRelease[1] = UnsetTargetRelease
             \/ /\ Len(Split(atEntry[b].TargetRelease[1], ".")) >= 2
                /\ TagValid
                /\ BugRelease(atEntry[b])
                       # SemverToMajorMinor(SemverParseTolerant(tagName)))

\* C5 witness: an ON_QA bug with approved PRs, targeted at another release,
\* was read and left alone
C5_Witness ==
    /\ Returned
    /\ \E b \in BugIDs :
        /\ Fetched(b)
        /\ atEntry[b].Status = ON_QA
        /\ Len(atEntry[b].TargetRelease) > 0
        /\ Len(Split(atEntry[b].TargetRelease[1], ".")) >= 2
        /\ BugRelease(atEntry[b]) # tagRelease
        /\ \A k \in 1..Len(bzPRs[b]) : HasLabel(ghLabels[bzPRs[b][k]])

\* C6: a tag that does not parse gives exactly one error and not a single call
\* to bugzilla or github; with a tag that parses the batch is never cut short:
\* the links of every input ID are fetched and every bug of the map is read.
C6_OnlyTagAborts ==
    /\ (pc # "idle" /\ ~TagValid) =>
           Returned /\ Len(errs) = 1 /\ calls = <<>> /\ bzComments = [b \in BugIDs |-> <<>>]
               /\ bzBugs = atEntry
    /\ (Returned /\ TagValid) =>
           /\ \A b \in BugIDs :
                  Cardinality(CallsOf("GetExternalBugPRsOnBug", b))
                      = Cardinality({k \in 1..Len(bugs) : bugs[k] = b})
           /\ \A b \in DOMAIN bzPRs : Cardinality(CallsOf("GetBug", b)) = 1

\* C6 witness: a batch of two bugs was refused for its tag
C6_Witness == Returned /\ ~TagValid /\ Len(bugs) = 2 /\ Len(errs) = 1

\* bug b reached the status evaluation of lines 76-107
Evaluated(b) == Fetched(b) /\ InTagStream(b)

\* every PR in bzPRs[b] carries qe-approved
AllApproved(b) == \A k \in 1..Len(bzPRs[b]) : HasLabel(ghLabels[bzPRs[b][k]])

\* the outcome of bug b is success, in the claim's words: status ON_QA, every
\* label fetch succeeded, every linked PR carries qe-approved
SuccessOutcome(b) ==
    /\ atEntry[b].Status = ON_QA
    /\ \A k \in CallsOf("GetIssueLabels", b) : calls[k].err = Nil
    /\ AllApproved(b)

\* C3 as claimed: once VerifyBugs has returned, a bug that reached the status
\* evaluation has had its update to VERIFIED issued if and only if its outcome
\* is success, whatever happened while its comments were fetched or posted.
C3_UpdateIffSuccess ==
    Returned =>
        \A b \in BugIDs :
            Evaluated(b) => (CallsOf("UpdateBug", b) # {} <=> SuccessOutcome(b))

\* the comments that were on bug b when the invocation began
CommentsAtEntry(b) ==
    IF \E k \in CallsOf("CreateComment", b) : calls[k].err = Nil
    THEN SubSeq(bzComments[b], 1, Len(bzComments[b]) - 1)
    ELSE bzComments[b]

\* the line of the message for a PR that is not approved
NotApprovedLine(extPR) ==
    <<"\n- PR ", extPR.org, "/", extPR.repo, "#">> \o Itoa(extPR.prNum)
        \o <<" not approved by QA contact">>

\* the elements of the sequence prs that lack qe-approved, in order
RECURSIVE Unapproved(_)
Unapproved(prs) ==
    IF Len(prs) = 0 THEN <<>>
    ELSE (IF HasLabel(ghLabels[Head(prs)]) THEN <<>> ELSE <<Head(prs)>>)
             \o Unapproved(Tail(prs))

\* C8 as claimed: when the message of an ON_QA bug of the tag's stream is
\* composed after label fetches that all succeeded, and a linked PR lacks
\* qe-approved, then the outcome is failure, no update was issued, the
\* evaluation recorded no error for the bug, and the message holds one
\* "not approved" line for each linked PR that lacks the label, in link order,
\* and none for a PR that carries it.
C8_UnapprovedListedOnce ==
    \A b \in BugIDs :
        (/\ pc = "GetComments"
         /\ bugID = b
         /\ atEntry[b].Status = ON_QA
         /\ \A k \in CallsOf("GetIssueLabels", b) : calls[k].err = Nil
         /\ Len(Unapproved(LinkedPRs(bzExternal[b]))) > 0)
        => /\ outcome[b] = "failure"
           /\ ~success
           /\ CallsOf("UpdateBug", b) = {}
           /\ bugErrs = <<>>
           /\ unlabeledPRs = Unapproved(LinkedPRs(bzExternal[b]))
           /\ \A k \in 1..Len(LinkedPRs(bzExternal[b])) :
                  LET extPR == LinkedPRs(bzExternal[b])[k]
                  IN  Count(message, NotApprovedLine(extPR))
                          = IF HasLabel(ghLabels[extPR]) THEN 0 ELSE 1

\* C9: in one invocation no bug gets more than one CreateComment call or more
\* than one UpdateBug call, also when its ID is repeated in the input; and an
\* ON_QA bug of the tag's stream whose PRs are all approved and whose calls all
\* succeed gets exactly one update, to VERIFIED, and a comment that ends with
\* the success line.
C9_OncePerBug ==
    /\ \A b \in BugIDs :
           /\ Cardinality(CallsOf("CreateComment", b)) <= 1
           /\ Cardinality(CallsOf("UpdateBug", b)) <= 1
    /\ Returned =>
           \A b \in DOMAIN bzPRs :
               (/\ atEntry[b].Status = ON_QA
                /\ InTagStream(b)
                /\ AllApproved(b)
                /\ FailedOf(b) = {})
               => /\ Cardinality(CallsOf("UpdateBug", b)) = 1
                  /\ \A k \in CallsOf("UpdateBug", b) : calls[k].text = <<VERIFIED>>
                  /\ bzBugs[b].Status = VERIFIED
                  /\ \/ AlreadyCommented(CommentsAtEntry(b),
                                         bzComments[b][Len(bzComments[b])].Text)
                     \/ Cardinality(CallsOf("CreateComment", b)) = 1
                  /\ \A k \in CallsOf("CreateComment", b) :
                         /\ HasSuffix(calls[k].text, SuccessLine)
                         /\ bzComments[b][Len(bzComments[b])].Text = calls[k].text

\* C9 witness: the ID of a bug was given twice, and the bug got one comment
\* and one update
C9_Witness ==
    /\ Returned
    /\ \E b \in BugIDs :
        /\ Cardinality({k \in 1..Len(bugs) : bugs[k] = b}) = 2
        /\ FailedOf(b) = {}
        /\ Cardinality(CallsOf("CreateComment", b)) = 1
        /\ Cardinality(CallsOf("UpdateBug", b)) = 1
        /\ bzBugs[b].Status = VERIFIED

\* bug b has a comment of the robot with the text msg among comments
RobotCommented(comments, msg) ==
    \E k \in 1..Len(comments) :
        comments[k].Text = msg /\ comments[k].Creator \in RobotCreators

\* the message for bug b when its status is neither ON_QA nor VERIFIED
NotOnQAMessage(b) ==
    <<"Bugfix included in accepted release ">> \o tagName
        \o <<"\nBug will not be automatically moved to VERIFIED for the following reasons:">>
        \o <<"\n- ", "Bug is not in ON_QA status">>
        \o <<"\n\nThis bug must now be manually moved to VERIFIED">>
        \o (IF atEntry[b].QAContactDetail = <<>> THEN <<>>
            ELSE <<" by ", atEntry[b].QAContactDetail[1]>>)

\* bug b reached the status evaluation in a status other than ON_QA and VERIFIED
OtherStatus(b) ==
    Evaluated(b) /\ atEntry[b].Status # ON_QA /\ atEntry[b].Status # VERIFIED

\* the calls made for bug b that failed and whose failure the code records
RecordedFailuresOf(b) ==
    {k \in FailedOf(b) :
        ~(calls[k].op = "GetExternalBugPRsOnBug" /\ calls[k].err = ErrAccessDenied)}

\* C10 as claimed: for a bug of the tag's stream in a status other than ON_QA
\* and VERIFIED, once VerifyBugs has returned: no labels were fetched for it,
\* the message with the reason "Bug is not in ON_QA status" is on the bug as a
\* comment of the robot, no update was issued and no error concerns it (stated
\* for the bugs whose link fetches succeeded).
C10_NotOnQACommentedNoError ==
    Returned =>
        \A b \in BugIDs :
            (/\ OtherStatus(b)
             /\ \A k \in CallsOf("GetExternalBugPRsOnBug", b) : calls[k].err = Nil)
            => /\ CallsOf("GetIssueLabels", b) = {}
               /\ CallsOf("UpdateBug", b) = {}
               /\ RobotCommented(bzComments[b], NotOnQAMessage(b))
               /\ ErrorsOf(b) = {}

\* C10 amended: for such a bug no labels are fetched and no update is issued;
\* the message carries the reason "Bug is not in ON_QA status" and no "not
\* approved" line; it is posted unless an identical comment of the robot
\* exists or the comment fetch fails; it is on the bug once the comment fetch
\* and the post succeed; the only errors that concern the bug are those of its
\* failed calls, one each.
C10_NotOnQA ==
    \A b \in BugIDs :
        OtherStatus(b) =>
            /\ CallsOf("GetIssueLabels", b) = {}
            /\ CallsOf("UpdateBug", b) = {}
            /\ outcome[b] = "failure"
            /\ bzBugs[b].Status = atEntry[b].Status
            /\ bugID = b =>
                   /\ message = NotOnQAMessage(b)
                   /\ Contains(message, <<"\n- ", "Bug is not in ON_QA status">>)
                   /\ ~Contains(message, <<" not approved by QA contact">>)
            /\ Returned =>
                   LET gc == CallsOf("GetComments", b)
                       cc == CallsOf("CreateComment", b)
                   IN  /\ Cardinality(gc) = 1
                       /\ cc = {} <=>
                              \/ \E k \in gc : calls[k].err # Nil
                              \/ RobotCommented(CommentsAtEntry(b), NotOnQAMessage(b))
                       /\ \A k \in cc : calls[k].text = NotOnQAMessage(b)
                       /\ (\A k \in gc \cup cc : calls[k].err = Nil) =>
                              RobotCommented(bzComments[b], NotOnQAMessage(b))
                       /\ Cardinality(ErrorsOf(b)) = Cardinality(RecordedFailuresOf(b))

\* C10 witness: the bug had the comment from an earlier invocation, and this
\* invocation read the comments and posted nothing
C10_Witness ==
    /\ Returned
    /\ \E b \in BugIDs :
        /\ OtherStatus(b)
        /\ \E k \in CallsOf("GetComments", b) : calls[k].err = Nil
        /\ CallsOf("CreateComment", b) = {}
        /\ RobotCommented(bzComments[b], NotOnQAMessage(b))

\* C1: the verifier never calls CreateComment with a text that a comment of
\* the robot on that bug already has, over any sequence of invocations; so a
\* second invocation on an unchanged bug posts nothing.
C1_NoRepeatedComment ==
    [][(Len(calls') = Len(calls) + 1 /\ calls'[Len(calls')].op = "CreateComment") =>
           ~RobotCommented(bzComments[calls'[Len(calls')].id],
                           calls'[Len(calls')].text)]_vars

\* C1 witness: in a second invocation a bug's message was found among its
\* comments and not posted again
C1_Witness ==
    /\ Returned
    /\ invocations = 2
    /\ \E b \in BugIDs :
        /\ outcome[b] # "none"
        /\ \E k \in CallsOf("GetComments", b) : calls[k].err = Nil
        /\ CallsOf("CreateComment", b) = {}
        /\ Len(bzComments[b]) > 0

\* the calls made for bug b after its links were resolved, in order
OwnCalls(b) ==
    SelectSeq(calls, LAMBDA c : c.id = b /\ c.op # "GetExternalBugPRsOnBug")

\* the sequence s, n times over
RECURSIVE Repeat(_, _)
Repeat(s, n) == IF n = 0 THEN <<>> ELSE s \o Repeat(s, n - 1)

\* the PRs of bug b after its own link fetches: its github links, once for
\* every fetch that succeeded
OwnPRs(b) ==
    Repeat(LinkedPRs(bzExternal[b]),
           Cardinality({k \in CallsOf("GetExternalBugPRsOnBug", b) : calls[k].err = Nil}))

\* what bug b's own data and the results of its own calls make of its calls:
\* the bug is read; unless that fails or a gate skips the bug, the labels of
\* its PRs are fetched if it is ON_QA, its comments are read and, if that
\* succeeds, its message is posted unless the robot posted it before, and
\* its status is updated if its outcome is success
OwnCallsComplete(b) ==
    LET seq == OwnCalls(b)
        n == IF atEntry[b].Status = ON_QA THEN Len(OwnPRs(b)) ELSE 0
        unl[k \in 0..n] ==
            IF k = 0 THEN <<>>
            ELSE IF seq[1 + k].err # Nil \/ ~HasLabel(ghLabels[OwnPRs(b)[k]])
                 THEN Append(unl[k - 1], OwnPRs(b)[k]) ELSE unl[k - 1]
        labelErrs[k \in 0..n] ==
            IF k = 0 THEN <<>>
            ELSE IF seq[1 + k].err # Nil
                 THEN Append(labelErrs[k - 1], ErrLabels(OwnPRs(b)[k], seq[1 + k].err))
                 ELSE labelErrs[k - 1]
        bErrs == IF atEntry[b].Status = ON_QA THEN labelErrs[n] ELSE <<ErrNotOnQA>>
        msg == ComposeMessage(tagName, unl[n], bErrs, atEntry[b])
        rest == SubSeq(seq, n + 3, Len(seq))
        posts == IF RobotCommented(CommentsAtEntry(b), msg) THEN <<>>
                 ELSE <<"CreateComment">>
        updates == IF Success(unl[n], bErrs) THEN <<"UpdateBug">> ELSE <<>>
    IN  /\ Len(seq) >= 1
        /\ seq[1].op = "GetBug"
        /\ IF seq[1].err # Nil \/ ~InTagStream(b) \/ atEntry[b].Status = VERIFIED
           THEN Len(seq) = 1 /\ bzBugs[b] = atEntry[b]
           ELSE /\ Len(seq) >= n + 2
                /\ \A k \in 1..n :
                       seq[1 + k].op = "GetIssueLabels" /\ seq[1 + k].pr = OwnPRs(b)[k]
                /\ seq[n + 2].op = "GetComments"
                /\ [k \in 1..Len(rest) |-> rest[k].op]
                       = IF seq[n + 2].err # Nil THEN <<>> ELSE posts \o updates
                /\ \A k \in 1..Len(rest) :
                       /\ rest[k].op = "CreateComment" =>
                              /\ rest[k].text = msg
                              /\ rest[k].err = Nil =>
                                     bzComments[b][Len(bzComments[b])].Text = msg
                       /\ rest[k].op = "UpdateBug" =>
                              /\ rest[k].text = <<VERIFIED>>
                              /\ rest[k].err = Nil => bzBugs[b].Status = VERIFIED
                /\ (\A k \in 1..Len(rest) : rest[k].op = "UpdateBug" => rest[k].err # Nil)
                       => bzBugs[b] = atEntry[b]

\* C7: with a tag that parses, the links of every input ID are fetched
\* whatever failed before, a bug's PRs are those of its own link fetches, and
\* once VerifyBugs has returned the calls made for a bug, the comment posted on
\* it and its status are those its own data and the results of its own calls
\* give: no failure for another bug changes them or cuts them short.
C7_FailuresIsolated ==
    (pc \notin {"idle", "getPRs"} /\ TagValid) =>
        /\ \A b \in BugIDs :
               LET own == OwnPRs(b)
               IN  /\ Cardinality(CallsOf("GetExternalBugPRsOnBug", b))
                          = Cardinality({k \in 1..Len(bugs) : bugs[k] = b})
                   /\ b \in DOMAIN bzPRs <=> Len(own) > 0
                   /\ b \in DOMAIN bzPRs => bzPRs[b] = own
                   /\ b \notin DOMAIN bzPRs => OwnCalls(b) = <<>>
        /\ Returned => \A b \in DOMAIN bzPRs : OwnCallsComplete(b)

\* C7 witness: a call for one bug failed and, later in the same invocation,
\* the other bug was commented and moved to VERIFIED
C7_Witness ==
    /\ Returned
    /\ \E b \in BugIDs, o \in BugIDs :
        /\ b # o
        /\ \E f \in FailedOf(b), c \in CallsOf("CreateComment", o),
              u \in CallsOf("UpdateBug", o) :
               f < c /\ c < u /\ calls[c].err = Nil /\ calls[u].err = Nil

\* the positions in errs of the errors equal to e
ErrsEqual(e) == {k \in 1..Len(errs) : errs[k] = e}

\* C11: when the outcome of a bug is success and its CreateComment call fails,
\* one error is recorded for the failed post, nothing is added to the bug's
\* comments, and the update to VERIFIED is the next call made for the bug, in
\* the same invocation.
C11_FailedPostDoesNotBlock ==
    \A b \in BugIDs :
        \A k \in CallsOf("CreateComment", b) :
            (calls[k].err # Nil /\ Evaluated(b) /\ SuccessOutcome(b)) =>
                /\ Cardinality(ErrsEqual(ErrCreateComment(b, calls[k].err))) = 1
                /\ ~RobotCommented(bzComments[b], calls[k].text)
                /\ IF k = Len(calls)
                   THEN pc = "UpdateBug" /\ bugID = b
                   ELSE /\ calls[k + 1].op = "UpdateBug"
                        /\ calls[k + 1].id = b
                        /\ calls[k + 1].text = <<VERIFIED>>

\* C11 witness: the post of the success message failed, the update was issued
\* next and bugzilla applied it
C11_Witness ==
    /\ Returned
    /\ \E b \in BugIDs :
        \E k \in CallsOf("CreateComment", b) :
            /\ calls[k].err # Nil
            /\ HasSuffix(calls[k].text, SuccessLine)
            /\ k < Len(calls)
            /\ calls[k + 1].op = "UpdateBug"
            /\ calls[k + 1].err = Nil
            /\ bzBugs[b].Status = VERIFIED

\* the positions in calls of the link fetches for bug b that returned err
LinkFetches(b, err) ==
    {k \in CallsOf("GetExternalBugPRsOnBug", b) : calls[k].err = err}

\* the positions in errs of the errors of getPRs
LinkErrors ==
    {k \in 1..Len(errs) : errs[k][1] = "Failed to get external bugs for bugzilla bug "}

FailedLabelFetches(b) == {k \in CallsOf("GetIssueLabels", b) : calls[k].err # Nil}

\* the PRs of the label fetches made for bug b, in call order
LabelFetchPRs(b) ==
    LET seq == SelectSeq(calls, LAMBDA c : c.op = "GetIssueLabels" /\ c.id = b)
    IN  [k \in 1..Len(seq) |-> seq[k].pr]

\* the reason line of the message for the label fetch at position k of calls
LabelReasonLine(k) == <<"\n- ">> \o ErrLabels(calls[k].pr, calls[k].err)

\* C13: labels are fetched only for ON_QA bugs; every failed label fetch adds
\* one error to the returned list; the bug's message, as composed and as
\* posted, has the same reason as one of its lines; the outcome of the bug is
\* not success, no update is issued and the bug keeps its status, whatever
\* labels the other PRs carry; and the labels of every PR of the bug are
\* fetched all the same, in order.
C13_LabelFetchFailure ==
    /\ \A extPR \in PRs :
           Cardinality(ErrsEqual(ErrLabels(extPR, ErrServer)))
               = Cardinality({k \in 1..Len(calls) :
                                  /\ calls[k].op = "GetIssueLabels"
                                  /\ calls[k].pr = extPR
                                  /\ calls[k].err # Nil})
    /\ \A b \in BugIDs :
           /\ CallsOf("GetIssueLabels", b) # {} => atEntry[b].Status = ON_QA
           /\ FailedLabelFetches(b) # {} =>
                  /\ outcome[b] # "success"
                  /\ CallsOf("UpdateBug", b) = {}
                  /\ bzBugs[b] = atEntry[b]
                  /\ IF pc = "GetIssueLabels" /\ bugID = b
                     THEN LabelFetchPRs(b) = SubSeq(bzPRs[b], 1, prIdx - 1)
                     ELSE /\ LabelFetchPRs(b) = bzPRs[b]
                          /\ outcome[b] = "failure"
                  /\ \A k \in FailedLabelFetches(b) :
                         /\ (bugID = b /\ pc # "GetIssueLabels") =>
                                Contains(message, LabelReasonLine(k))
                         /\ \A c \in CallsOf("CreateComment", b) :
                                Contains(calls[c].text, LabelReasonLine(k))

\* C13 witness: the first label fetch of a bug with two approved PRs failed,
\* the labels of the second PR were fetched, and the comment with the reason
\* was posted
C13_Witness ==
    /\ Returned
    /\ \E b \in BugIDs :
        /\ b \in DOMAIN bzPRs
        /\ Len(bzPRs[b]) = 2
        /\ AllApproved(b)
        /\ \E k \in FailedLabelFetches(b) :
               /\ calls[k].pr = bzPRs[b][1]
               /\ calls[k + 1].op = "GetIssueLabels"
               /\ calls[k + 1].pr = bzPRs[b][2]
               /\ calls[k + 1].err = Nil
               /\ \E c \in CallsOf("CreateComment", b) :
                      /\ calls[c].err = Nil
                      /\ Contains(bzComments[b][Len(bzComments[b])].Text,
                                  LabelReasonLine(k))

\* C14: when the comments of a bug were fetched without an error, CreateComment
\* is skipped if and only if a comment on the bug has the text of the message
\* and one of the two robot account names as its creator; CreateComment is
\* called only after such a fetch, for that bug and with that message.
C14_DuplicateSuppression ==
    [][/\ (/\ pc = "GetComments"
           /\ Len(calls') = Len(calls) + 1
           /\ calls'[Len(calls')].err = Nil)
          => (pc' # "CreateComment" <=>
                  \E k \in 1..Len(bzComments[bugID]) :
                      /\ bzComments[bugID][k].Text = message
                      /\ bzComments[bugID][k].Creator
                             \in {"openshift-bugzilla-robot",
                                  "openshift-bugzilla-robot@redhat.com"})
       /\ pc' = "CreateComment" =>
              pc = "GetComments" /\ message' = message /\ bugID' = bugID
       /\ (Len(calls') = Len(calls) + 1 /\ calls'[Len(calls')].op = "CreateComment")
          => /\ pc = "CreateComment"
             /\ calls'[Len(calls')].id = bugID
             /\ calls'[Len(calls')].text = message]_vars

\* C14 witness: the message is about to be posted on a bug that has a comment
\* of a person with the same text and a comment of the robot with another text
C14_Witness ==
    /\ pc = "CreateComment"
    /\ \E k \in 1..Len(bzComments[bugID]) :
           /\ bzComments[bugID][k].Text = message
           /\ bzComments[bugID][k].Creator \notin RobotCreators
    /\ \E k \in 1..Len(bzComments[bugID]) :
           /\ bzComments[bugID][k].Text # message
           /\ bzComments[bugID][k].Creator \in RobotCreators

\* none of the external links of bug b is hosted on https://github.com/
NoGitHubLink(b) ==
    \A k \in 1..Len(bzExternal[b]) : bzExternal[b][k].URL # "https://github.com/"

\* C15: a bug whose external links, as getPRs fetches them, include no link
\* with the URL https://github.com/ is not in the map of bugs to PRs; GetBug,
\* GetIssueLabels, GetComments, CreateComment and UpdateBug are never called
\* for it, its status and comments stay as they were, and no error concerns
\* it, whatever its status (a fetch of its links that fails is recorded as
\* such, see C12).
C15_NoReviewRequestSkipped ==
    \A b \in BugIDs :
        NoGitHubLink(b) =>
            /\ b \notin DOMAIN bzPRs
            /\ OwnCalls(b) = <<>>
            /\ bzBugs[b] = atEntry[b]
            /\ bzComments[b] = <<>>
            /\ \A k \in ErrorsOf(b) :
                   /\ errs[k] = ErrExternal(b, ErrServer)
                   /\ LinkFetches(b, ErrServer) # {}
            /\ LinkFetches(b, ErrServer) = {} => ErrorsOf(b) = {}

\* C15 witness: an ON_QA bug of the tag's stream without a github link was
\* given after a bug that was commented; its links were fetched, and the
\* invocation returned without an error
C15_Witness ==
    /\ Returned
    /\ Len(bugs) = 2
    /\ WritesOf(bugs[1]) # {}
    /\ NoGitHubLink(bugs[2])
    /\ LinkFetches(bugs[2], Nil) # {}
    /\ atEntry[bugs[2]].Status = ON_QA
    /\ InTagStream(bugs[2])
    /\ errs = <<>>

\* C16 as claimed: for every input, an ID given more than once included, the
\* PR list that getPRs makes for a bug has one entry for each github link of
\* the bug, in link order, and the composed message of an ON_QA bug has one
\* "not approved" line for each PR whose labels were fetched and lack
\* qe-approved.
C16_OnePRPerLink ==
    (pc \notin {"idle", "getPRs"}) =>
        /\ \A b \in DOMAIN bzPRs : bzPRs[b] = LinkedPRs(bzExternal[b])
        /\ (pc = "GetComments" /\ atEntry[bugID].Status = ON_QA
                /\ FailedLabelFetches(bugID) = {}) =>
               \A k \in 1..Len(LinkedPRs(bzExternal[bugID])) :
                   LET extPR == LinkedPRs(bzExternal[bugID])[k]
                   IN  ~HasLabel(ghLabels[extPR]) =>
                           Count(message, NotApprovedLine(extPR)) = 1

\* the positions in calls of the label fetches for bug b that succeeded and
\* returned the label qe-approved
ApprovedLabelFetches(b) ==
    {k \in CallsOf("GetIssueLabels", b) :
        calls[k].err = Nil /\ "qe-approved" \in ghLabels[calls[k].pr]}

\* C17: every bug the loop of VerifyBugs visits has at least one PR in its
\* list; and an update to VERIFIED is issued, or about to be issued, only for
\* a bug for which an earlier label fetch of the invocation succeeded and
\* returned qe-approved.
C17_SuccessNeverVacuous ==
    /\ pc \notin {"idle", "getPRs"} => \A b \in DOMAIN bzPRs : Len(bzPRs[b]) > 0
    /\ bugID # 0 => Len(extPRs) > 0
    /\ pc = "UpdateBug" => ApprovedLabelFetches(bugID) # {}
    /\ \A b \in BugIDs :
           \A u \in CallsOf("UpdateBug", b) :
               \E k \in ApprovedLabelFetches(b) : k < u

\* C17 witness: a bug was moved to VERIFIED after the labels of its two PRs
\* were fetched
C17_Witness ==
    \E b \in BugIDs :
        /\ bzBugs[b].Status = VERIFIED
        /\ atEntry[b].Status = ON_QA
        /\ CallsOf("UpdateBug", b) # {}
        /\ Cardinality(ApprovedLabelFetches(b)) = 2

\* the positions in the text msg of the chunk c
ChunksAt(msg, c) == {k \in 1..Len(msg) : msg[k] = c}

\* the text msg has the "not approved" line and the reason line of the failed
\* label fetch at position k of calls, and all its "not approved" lines come
\* before all its "Unable to get labels" lines
UnapprovedBeforeReasons(msg, k) ==
    /\ Contains(msg, NotApprovedLine(calls[k].pr))
    /\ Contains(msg, LabelReasonLine(k))
    /\ \A i \in ChunksAt(msg, " not approved by QA contact"),
          j \in ChunksAt(msg, "Unable to get labels for github pull ") : i < j

\* C18: a PR whose label fetch failed is on the list of unapproved PRs, whatever
\* labels it carries on github; the bug's message, as composed and as posted,
\* has a "not approved by QA contact" line for the PR and the "Unable to get
\* labels" line of the failure, all "not approved" lines before all "Unable
\* to get labels" lines.
C18_FailedFetchCountsUnapproved ==
    \A b \in BugIDs :
        \A k \in FailedLabelFetches(b) :
            /\ bugID = b =>
                   /\ \E i \in 1..Len(unlabeledPRs) : unlabeledPRs[i] = calls[k].pr
                   /\ pc # "GetIssueLabels" => UnapprovedBeforeReasons(message, k)
            /\ \A c \in CallsOf("CreateComment", b) :
                   UnapprovedBeforeReasons(calls[c].text, k)

\* C18 witness: the label fetch of an approved PR failed, the other PR of the
\* bug is not approved, and the comment with two "not approved" lines and one
\* reason line was posted
C18_Witness ==
    /\ Returned
    /\ \E b \in BugIDs :
        \E k \in FailedLabelFetches(b), c \in CallsOf("CreateComment", b) :
            /\ HasLabel(ghLabels[calls[k].pr])
            /\ calls[c].err = Nil
            /\ Cardinality(ChunksAt(calls[c].text, " not approved by QA contact")) = 2
            /\ Cardinality(ChunksAt(calls[c].text,
                                    "Unable to get labels for github pull ")) = 1

\* the message of a bug whose outcome is success
SuccessMessage ==
    <<"Bugfix included in accepted release ">> \o tagName
        \o <<"\nAll linked GitHub PRs have been approved by a QA contact; updating bug status to VERIFIED">>

\* what has happened in the invocation before position u of calls, where an
\* update of bug b is issued: the bug was read, then the labels of each of
\* its PRs were fetched, then its comments were read without an error, and
\* then the success message was posted, or not when it was found
UpdatePrepared(b, u) ==
    LET labels == CallsOf("GetIssueLabels", b)
    IN  \E g \in CallsOf("GetBug", b), gc \in CallsOf("GetComments", b) :
            /\ calls[g].err = Nil
            /\ calls[gc].err = Nil
            /\ g < gc /\ gc < u
            /\ LabelFetchPRs(b) = bzPRs[b]
            /\ \A k \in labels : g < k /\ k < gc
            /\ \/ \E cc \in CallsOf("CreateComment", b) :
                      gc < cc /\ cc < u /\ calls[cc].text = SuccessMessage
               \/ /\ CallsOf("CreateComment", b) = {}
                  /\ RobotCommented(bzComments[b], SuccessMessage)

\* C19: an update is issued, or about to be issued, only with the status
\* VERIFIED and only after, in the same invocation, GetBug succeeded for the
\* bug, the labels of all its PRs were fetched, GetComments succeeded and the
\* success message was found as a comment of the robot or a CreateComment
\* call was made for it; and CreateComment is only called right after a
\* GetComments call for the same bug that succeeded.
C19_CallOrder ==
    /\ pc = "UpdateBug" => UpdatePrepared(bugID, Len(calls) + 1)
    /\ \A k \in 1..Len(calls) :
           /\ calls[k].op = "UpdateBug" =>
                  calls[k].text = <<VERIFIED>> /\ UpdatePrepared(calls[k].id, k)
           /\ calls[k].op = "CreateComment" =>
                  /\ k > 1
                  /\ calls[k - 1].op = "GetComments"
                  /\ calls[k - 1].id = calls[k].id
                  /\ calls[k - 1].err = Nil

\* C19 witness: in a second invocation a bug was updated without a post, its
\* success message being on the bug from the first invocation
C19_Witness ==
    /\ invocations = 2
    /\ \E b \in BugIDs :
        /\ CallsOf("UpdateBug", b) # {}
        /\ CallsOf("CreateComment", b) = {}
        /\ RobotCommented(bzComments[b], SuccessMessage)
        /\ Len(bzPRs[b]) = 2

\* the bugs that are in every batch of SpecLive
LiveBugs == {b \in BugIDs : \A l \in LiveInputs : \E k \in 1..Len(l) : l[k] = b}

\* the comments of the robot on bug b that end with the success line
SuccessComments(b) ==
    {k \in 1..Len(bzComments[b]) :
        /\ bzComments[b][k].Creator \in RobotCreators
        /\ HasSuffix(bzComments[b][k].Text, SuccessLine)}

====
